---- MODULE Spec2Model ----
(***************************************************************************)
(* Telemetry ingestion and device registry of the ITH server (server.js).  *)
(* The store holds two tables, sensores and mediciones; every HTTP request *)
(* runs as one task whose steps are the stretches of its handler between   *)
(* two awaits, each stretch carrying the store statement it waited for.    *)
(***************************************************************************)
EXTENDS Integers, Sequences, FiniteSets, TLC

\* ------------------------------------------------------------------ bounds
\* Concurrent request tasks.
NumReqs == 2
\* Cap on rows of sensores (guards of the INSERT statements).
MaxSensores == 2
\* Cap on rows of mediciones.
MaxMediciones == 2
\* Cap on the store clock read by NOW().
MaxNow == 2
\* Longest dev_eui text given to normalizarDevEui on its own.
MaxEui == 3

\* ------------------------------------------------------------------ values
\* Text is a sequence of one-character strings; NULL is SQL NULL / JS null or
\* undefined for a text value (no text over the alphabet equals it).
NULL == <<"NULL">>
\* SQL NULL / absent for an id: AUTO_INCREMENT ids start at 1, and 0 is falsy in
\* the handlers' selector checks exactly as null is.
NoId == 0
\* updated_at of a row no UPDATE has touched.
NoTime == 0
\* No HTTP response has been written.
NoResponse == 0

LowerCase == <<"a", "b", "c", "d", "e", "f", "g">>
UpperCase == <<"A", "B", "C", "D", "E", "F", "G">>
HexChars == {"0", "1", "2", "3", "4", "5", "6", "7", "8", "9",
             "A", "B", "C", "D", "E", "F"}

\* String.prototype.toUpperCase / SQL UPPER, one character.
toUpperCaseChar(c) ==
    IF \E i \in DOMAIN LowerCase : LowerCase[i] = c
    THEN UpperCase[CHOOSE i \in DOMAIN LowerCase : LowerCase[i] = c]
    ELSE c

\* The character U+FB00 (the ligature of two f), one character of a text.
\* String.prototype.toUpperCase follows the Unicode special casing, under which
\* its upper case is the two characters "FF".
LigaduraFF == "U+FB00"

SpecialCasing(c) ==
    IF c = LigaduraFF THEN <<"F", "F">> ELSE <<toUpperCaseChar(c)>>

\* String.prototype.toUpperCase of a text (SQL UPPER is the same on every
\* character but the ligature, which no text of the store holds here).
RECURSIVE toUpperCase(_)
toUpperCase(s) ==
    IF s = <<>> THEN <<>> ELSE SpecialCasing(Head(s)) \o toUpperCase(Tail(s))

\* String.prototype.trim / SQL TRIM: leading and trailing blanks removed.
RECURSIVE trimLeft(_)
trimLeft(s) == IF s # <<>> /\ Head(s) = " " THEN trimLeft(Tail(s)) ELSE s

RECURSIVE trimRight(_)
trimRight(s) ==
    IF s # <<>> /\ s[Len(s)] = " " THEN trimRight(SubSeq(s, 1, Len(s) - 1)) ELSE s

trim(s) == trimRight(trimLeft(s))

\* if (!raw) return null; String(raw).toUpperCase().replace(/[^0-9A-F]/g, "")
normalizarDevEui(raw) ==
    IF raw = NULL \/ raw = <<>>
    THEN NULL
    ELSE SelectSeq(toUpperCase(raw), LAMBDA c : c \in HexChars)

\* A decoded JSON value: a number (kept in tenths of a unit) or something else.
Num(tenths) == [type |-> "number", v |-> tenths]
NotNum(t) == [type |-> t, v |-> 0]

\* lecturaValida without the upper limit of the temperature.
lecturaValidaSinMaximo(t, h, i) ==
    IF t.type # "number" \/ t.v < -400 THEN FALSE
    ELSE IF h.type # "number" \/ h.v < 0 \/ h.v > 1000 THEN FALSE
    ELSE IF i.type # "number" \/ i.v < 0 \/ i.v > 1200 THEN FALSE
    ELSE TRUE

\* lecturaValida: typeof number and within [-40,85], [0,100], [0,120].
lecturaValida(t, h, i) ==
    IF t.type # "number" \/ t.v < -400 \/ t.v > 850 THEN FALSE
    ELSE IF h.type # "number" \/ h.v < 0 \/ h.v > 1000 THEN FALSE
    ELSE IF i.type # "number" \/ i.v < 0 \/ i.v > 1200 THEN FALSE
    ELSE TRUE

\* ------------------------------------------------------------------- state
VARIABLES
    sensores,    \* table sensores: row i has id_sensor = i
    mediciones,  \* table mediciones: row i has id = i
    req,         \* the request tasks: handler, position, locals, response
    leased,      \* connections leased from the pool by getConnection
    now,         \* the store clock read by NOW()
    accepted,    \* webhook calls answered 200 so far
    collation,   \* how the store compares dev_eui text: "bin" or "ci"
    ttnApiKey    \* whether process.env.TTN_API_KEY is set

vars == <<sensores, mediciones, req, leased, now, accepted, collation, ttnApiKey>>

Reqs == 1..NumReqs

\* mysql.createPool({ ..., connectionLimit: 10 })
connectionLimit == 10

\* A row of sensores as INSERT INTO sensores (nombre_sensor, id_granja, dev_eui)
\* leaves it: the columns the statement does not name are NULL.
Sensor(nombre, granja, eui) ==
    [nombre_sensor |-> nombre, id_granja |-> granja, dev_eui |-> eui,
     modelo |-> NULL, area |-> NULL, zona |-> NULL, sala |-> NULL,
     modo |-> NULL, umbral_ith |-> NULL, dev_id |-> NULL,
     app_id |-> NULL, device_id |-> NULL, updated_at |-> NoTime]

NoRow == Sensor(NULL, NoId, NULL)

\* A row of mediciones.
Medicion(id, t, h, i) ==
    [id_sensor |-> id, temperatura |-> t, humedad |-> h, ith |-> i]

NoLectura == [temperatura |-> NotNum("undefined"), humedad |-> NotNum("undefined"),
              ith |-> NotNum("undefined")]

\* The body of PUT /api/sensores/actualizar; an absent key is NULL / NoId.
Body(id, eui, mo, ar, zo, sa, md, um, di) ==
    [id_sensor |-> id, dev_eui |-> eui, modelo |-> mo, area |-> ar, zona |-> zo,
     sala |-> sa, modo |-> md, umbral_ith |-> um, dev_id |-> di]

NoBody == Body(NoId, NULL, NULL, NULL, NULL, NULL, NULL, NULL, NULL)

\* No response of the network server has been received.
NoRemoto == [status |-> 0, text |-> NULL]

\* A task that runs no handler.
Idle ==
    [kind |-> "idle", pc |-> "idle", devEui |-> NULL, lectura |-> NoLectura,
     idSensor |-> NoId, body |-> NoBody, status |-> NoResponse, affected |-> 0,
     err |-> "none", conn |-> FALSE, txn |-> FALSE, lockId |-> NoId,
     undo |-> NoRow, creado |-> FALSE, fetches |-> 0, url |-> <<>>,
     remoto |-> NoRemoto, fila |-> NoId, arg |-> NULL, ret |-> NULL,
     valida |-> FALSE]

Init ==
    /\ sensores = <<>>
    /\ mediciones = <<>>
    /\ req = [r \in Reqs |-> Idle]
    /\ leased = 0
    /\ now = 1
    /\ accepted = 0
    /\ collation \in {"bin", "ci"}
    /\ ttnApiKey \in BOOLEAN

\* A task whose handler has ended with response s; its locals are gone. err is
\* what its catch block caught, if anything: "dup" for ER_DUP_ENTRY, "err" for
\* any other failure of the store.
Done(kind, s) == [Idle EXCEPT !.kind = kind, !.pc = "done", !.status = s]

Failed(kind, s, e) == [Done(kind, s) EXCEPT !.err = e]

\* res.status(s).json(...) / res.send(...): the handler of task r ends.
Respond(r, kind, s) == req' = [req EXCEPT ![r] = Done(kind, s)]

\* Task r can take the next request: it runs no handler, or its handler has
\* ended (the last response stays readable until then).
Free(r) == req[r].pc \in {"idle", "done"}

\* ------------------------------------------------------------------- store
\* WHERE dev_eui = ?: the column's collation decides whether case matters.
SqlEq(a, b) ==
    IF collation = "ci" THEN toUpperCase(a) = toUpperCase(b) ELSE a = b

\* The rows an open transaction has written and not yet committed: each is
\* locked by its task, which keeps the row's committed image in undo.
LockedBy(r) == req[r].lockId
Locked(i) == \E r \in Reqs : LockedBy(r) = i

\* What a plain SELECT reads: the committed image of every row.
Committed ==
    [i \in DOMAIN sensores |->
        IF Locked(i)
        THEN req[CHOOSE r \in Reqs : LockedBy(r) = i].undo
        ELSE sensores[i]]

\* The rows whose dev_eui equals e (NULL equals nothing).
RowsByEui(tbl, e) ==
    {i \in DOMAIN tbl :
        e # NULL /\ tbl[i].dev_eui # NULL /\ SqlEq(tbl[i].dev_eui, e)}

\* A statement of task r that needs the index entry e of the UNIQUE key on
\* dev_eui waits while another task's open transaction holds that entry
\* (the value it wrote or the one it replaced).
EuiHeld(r, e) ==
    \E i \in DOMAIN sensores :
        /\ Locked(i) /\ LockedBy(r) # i
        /\ i \in RowsByEui(sensores, e) \cup RowsByEui(Committed, e)

\* A store without the UNIQUE key: no write is ever a duplicate.
DupEntrySinClave(e, self) == FALSE

\* The UNIQUE key on sensores.dev_eui: writing e into a row other than `self`
\* is a duplicate when some other row already holds e ("Si dev_eui duplicado
\* (UNIQUE), MySQL lanzará error", ER_DUP_ENTRY).
DupEntry(e, self) ==
    e # NULL /\ RowsByEui(sensores, e) \ {self} # {}

\* A store statement of task r fails for a reason of the store's own (lost
\* connection, timeout): the handler's catch answers `s`.
StoreError(r, kind, s) ==
    /\ req' = [req EXCEPT ![r] = Failed(kind, s, "err")]
    /\ UNCHANGED <<sensores, mediciones, leased, now, accepted, collation, ttnApiKey>>

\* --------------------------------------------------- POST /webhook (new schema)
\* The head of the handler answering 400 where it answers 422.
WebhookRecvSin422(r, raw, up) ==
    /\ Free(r)
    /\ LET devEui == normalizarDevEui(raw)
       IN  IF ~up.decoded_payload
           THEN Respond(r, "webhook", 400)
           ELSE IF devEui = NULL \/ devEui = <<>>
           THEN Respond(r, "webhook", 400)
           ELSE IF ~lecturaValida(up.temperatura, up.humedad, up.ith)
           THEN Respond(r, "webhook", 400)
           ELSE req' = [req EXCEPT ![r] =
                    [Idle EXCEPT !.kind = "webhook", !.pc = "select",
                                 !.devEui = devEui,
                                 !.lectura = [temperatura |-> up.temperatura,
                                              humedad |-> up.humedad,
                                              ith |-> up.ith]]]
    /\ UNCHANGED <<sensores, mediciones, leased, now, accepted, collation, ttnApiKey>>

\* The head of the handler without the validation before the first await.
WebhookRecvSinValidar(r, raw, up) ==
    /\ Free(r)
    /\ LET devEui == normalizarDevEui(raw)
       IN  IF ~up.decoded_payload
           THEN Respond(r, "webhook", 400)
           ELSE IF devEui = NULL \/ devEui = <<>>
           THEN Respond(r, "webhook", 400)
           ELSE req' = [req EXCEPT ![r] =
                    [Idle EXCEPT !.kind = "webhook", !.pc = "select",
                                 !.devEui = devEui,
                                 !.lectura = [temperatura |-> up.temperatura,
                                              humedad |-> up.humedad,
                                              ith |-> up.ith]]]
    /\ UNCHANGED <<sensores, mediciones, leased, now, accepted, collation, ttnApiKey>>

\* Parse, normalise and validate: the synchronous head of the handler, up to
\* the first await (the SELECT of getOrCreateSensorByDevEui).
WebhookRecv(r, raw, up) ==
    /\ Free(r)
    /\ LET devEui == normalizarDevEui(raw)
       IN  IF ~up.decoded_payload
           THEN Respond(r, "webhook", 400)
           ELSE IF devEui = NULL \/ devEui = <<>>
           THEN Respond(r, "webhook", 400)
           ELSE IF ~lecturaValida(up.temperatura, up.humedad, up.ith)
           THEN Respond(r, "webhook", 422)
           ELSE req' = [req EXCEPT ![r] =
                    [Idle EXCEPT !.kind = "webhook", !.pc = "select",
                                 !.devEui = devEui,
                                 !.lectura = [temperatura |-> up.temperatura,
                                              humedad |-> up.humedad,
                                              ith |-> up.ith]]]
    /\ UNCHANGED <<sensores, mediciones, leased, now, accepted, collation, ttnApiKey>>

\* getOrCreateSensorByDevEui with a lookup that never finds the Sensor.
getOrCreateSelectNunca(r) ==
    /\ req[r].kind = "webhook" /\ req[r].pc = "select"
    /\ \/ /\ req' = [req EXCEPT ![r].pc = "insert_sensor"]
          /\ UNCHANGED <<sensores, mediciones, leased, now, accepted, collation, ttnApiKey>>
       \/ StoreError(r, "webhook", 500)

\* getOrCreateSensorByDevEui, first statement: SELECT id_sensor FROM sensores
\* WHERE dev_eui = ?; a hit returns rows[0].id_sensor, a miss goes on to INSERT.
getOrCreateSelect(r) ==
    /\ req[r].kind = "webhook" /\ req[r].pc = "select"
    /\ \/ LET rows == RowsByEui(Committed, req[r].devEui)
          IN  /\ IF rows # {}
                 THEN \E i \in rows :
                        req' = [req EXCEPT ![r].idSensor = i,
                                           ![r].pc = "insert_medicion"]
                 ELSE req' = [req EXCEPT ![r].pc = "insert_sensor"]
              /\ UNCHANGED <<sensores, mediciones, leased, now, accepted,
                             collation, ttnApiKey>>
       \/ StoreError(r, "webhook", 500)

\* The placeholder INSERT returning the id of the first row of the table
\* instead of the id of the row it inserted.
getOrCreateInsertPrimerId(r) ==
    /\ req[r].kind = "webhook" /\ req[r].pc = "insert_sensor"
    /\ \/ /\ ~EuiHeld(r, req[r].devEui)
          /\ IF DupEntry(req[r].devEui, NoId)
             THEN /\ req' = [req EXCEPT ![r] = Failed("webhook", 500, "dup")]
                  /\ UNCHANGED sensores
             ELSE /\ Len(sensores) < MaxSensores
                  /\ sensores' = Append(sensores,
                         Sensor(<<"T", "T", "N", "-">> \o req[r].devEui, NoId,
                                req[r].devEui))
                  /\ req' = [req EXCEPT ![r].idSensor = 1,
                                        ![r].creado = TRUE,
                                        ![r].pc = "insert_medicion"]
          /\ UNCHANGED <<mediciones, leased, now, accepted, collation, ttnApiKey>>
       \/ StoreError(r, "webhook", 500)

\* getOrCreateSensorByDevEui, second statement: the placeholder
\* INSERT INTO sensores (nombre_sensor, dev_eui, id_granja)
\* VALUES (`TTN-${devEui}`, devEui, null); it returns ins.insertId. The function
\* has no catch: a duplicate-key error leaves through the handler's catch.
getOrCreateInsert(r) ==
    /\ req[r].kind = "webhook" /\ req[r].pc = "insert_sensor"
    /\ \/ /\ ~EuiHeld(r, req[r].devEui)
          /\ IF DupEntry(req[r].devEui, NoId)
             THEN /\ req' = [req EXCEPT ![r] = Failed("webhook", 500, "dup")]
                  /\ UNCHANGED sensores
             ELSE /\ Len(sensores) < MaxSensores
                  /\ sensores' = Append(sensores,
                         Sensor(<<"T", "T", "N", "-">> \o req[r].devEui, NoId,
                                req[r].devEui))
                  /\ req' = [req EXCEPT ![r].idSensor = Len(sensores) + 1,
                                        ![r].creado = TRUE,
                                        ![r].pc = "insert_medicion"]
          /\ UNCHANGED <<mediciones, leased, now, accepted, collation, ttnApiKey>>
       \/ StoreError(r, "webhook", 500)

\* The last step of the webhook with a failed INSERT swallowed: it answers
\* "OK" although nothing was stored.
WebhookInsertMedicionTragada(r) ==
    /\ req[r].kind = "webhook" /\ req[r].pc = "insert_medicion"
    /\ \/ /\ Len(mediciones) < MaxMediciones
          /\ mediciones' = Append(mediciones,
                 Medicion(req[r].idSensor, req[r].lectura.temperatura,
                          req[r].lectura.humedad, req[r].lectura.ith))
          /\ Respond(r, "webhook", 200)
          /\ accepted' = accepted + 1
          /\ UNCHANGED <<sensores, leased, now, collation, ttnApiKey>>
       \/ /\ accepted < MaxMediciones
          /\ Respond(r, "webhook", 200)
          /\ accepted' = accepted + 1
          /\ UNCHANGED <<sensores, mediciones, leased, now, collation, ttnApiKey>>

\* INSERT INTO mediciones (id_sensor, temperatura, humedad, ith), then
\* res.send("OK").
WebhookInsertMedicion(r) ==
    /\ req[r].kind = "webhook" /\ req[r].pc = "insert_medicion"
    /\ \/ /\ Len(mediciones) < MaxMediciones
          /\ mediciones' = Append(mediciones,
                 Medicion(req[r].idSensor, req[r].lectura.temperatura,
                          req[r].lectura.humedad, req[r].lectura.ith))
          /\ Respond(r, "webhook", 200)
          /\ accepted' = accepted + 1
          /\ UNCHANGED <<sensores, leased, now, collation, ttnApiKey>>
       \/ StoreError(r, "webhook", 500)

\* ------------------------------------------------ POST /webhook (early schema)
\* The webhook of the early variants: no identity, no validation; one
\* INSERT INTO mediciones (temperatura, humedad, ith) and res.send("OK").
WebhookLegacy(r, up) ==
    /\ Free(r)
    /\ \/ /\ ~up.decoded_payload
          /\ Respond(r, "webhook_legacy", 400)
          /\ UNCHANGED <<sensores, mediciones, leased, now, accepted, collation, ttnApiKey>>
       \/ /\ up.decoded_payload
          /\ Len(mediciones) < MaxMediciones
          /\ mediciones' = Append(mediciones,
                 Medicion(NoId, up.temperatura, up.humedad, up.ith))
          /\ Respond(r, "webhook_legacy", 200)
          /\ accepted' = accepted + 1
          /\ UNCHANGED <<sensores, leased, now, collation, ttnApiKey>>
       \/ /\ up.decoded_payload
          /\ StoreError(r, "webhook_legacy", 500)

\* ------------------------------------------------------------ POST /sensores
\* INSERT INTO sensores (nombre_sensor, id_granja, dev_eui)
\* VALUES (nombre_sensor, id_granja ?? null, normalizarDevEui(dev_eui) ?? null).
PostSensores(r, nombre, granja, raw) ==
    /\ Free(r)
    /\ \/ /\ nombre = NULL \/ nombre = <<>>
          /\ Respond(r, "post_sensores", 400)
          /\ UNCHANGED <<sensores, mediciones, leased, now, accepted, collation, ttnApiKey>>
       \/ /\ ~(nombre = NULL \/ nombre = <<>>)
          /\ LET devEui == normalizarDevEui(raw)
             IN  /\ ~EuiHeld(r, devEui)
                 /\ IF DupEntry(devEui, NoId)
                    THEN /\ req' = [req EXCEPT ![r] =
                                         Failed("post_sensores", 500, "dup")]
                         /\ UNCHANGED sensores
                    ELSE /\ Len(sensores) < MaxSensores
                         /\ sensores' = Append(sensores,
                                            Sensor(nombre, granja, devEui))
                         /\ req' = [req EXCEPT ![r] =
                                [Done("post_sensores", 201) EXCEPT
                                     !.idSensor = Len(sensores) + 1]]
          /\ UNCHANGED <<mediciones, leased, now, accepted, collation, ttnApiKey>>
       \/ /\ ~(nombre = NULL \/ nombre = <<>>)
          /\ StoreError(r, "post_sensores", 500)

\* ------------------------------------- PUT /api/sensores/actualizar (transaction)
\* SQL COALESCE(a, b) and NULLIF(a, b).
Coalesce(a, b) == IF a # NULL THEN a ELSE b
NullIf(a, b) == IF a = b THEN NULL ELSE a

\* The SET list with zona = ? in place of zona = COALESCE(?, zona).
ActualizarCamposZonaDirecta(row, b, t) ==
    [row EXCEPT !.modelo = Coalesce(b.modelo, row.modelo),
                !.area = Coalesce(b.area, row.area),
                !.zona = b.zona,
                !.sala = Coalesce(b.sala, row.sala),
                !.modo = Coalesce(b.modo, row.modo),
                !.umbral_ith = b.umbral_ith,
                !.dev_id = Coalesce(b.dev_id, row.dev_id),
                !.updated_at = t]

\* The SET list of the field UPDATE: COALESCE(?, col) for modelo, area, zona,
\* sala, modo and dev_id, umbral_ith = ? verbatim, updated_at = NOW().
ActualizarCampos(row, b, t) ==
    [row EXCEPT !.modelo = Coalesce(b.modelo, row.modelo),
                !.area = Coalesce(b.area, row.area),
                !.zona = Coalesce(b.zona, row.zona),
                !.sala = Coalesce(b.sala, row.sala),
                !.modo = Coalesce(b.modo, row.modo),
                !.umbral_ith = b.umbral_ith,
                !.dev_id = Coalesce(b.dev_id, row.dev_id),
                !.updated_at = t]

\* if (!id_sensor && !dev_eui) return 400; then pool.getConnection() is awaited.
PutRecv(r, b) ==
    /\ Free(r)
    /\ IF b.id_sensor = NoId /\ (b.dev_eui = NULL \/ b.dev_eui = <<>>)
       THEN Respond(r, "put", 400)
       ELSE req' = [req EXCEPT ![r] = [Idle EXCEPT !.kind = "put",
                                           !.pc = "getconn", !.body = b]]
    /\ UNCHANGED <<sensores, mediciones, leased, now, accepted, collation, ttnApiKey>>

\* const conn = await pool.getConnection(): outside the try, so a rejection
\* rejects the handler's promise with no response written. What the client then
\* gets is the framework's: nothing (the promise is dropped) or the default
\* error response 500 (the rejection is forwarded), by the version installed.
\* A full pool makes the call wait.
PutGetConnection(r) ==
    /\ req[r].kind = "put" /\ req[r].pc = "getconn"
    /\ \/ /\ leased < connectionLimit
          /\ leased' = leased + 1
          /\ req' = [req EXCEPT ![r].conn = TRUE, ![r].pc = "begin"]
       \/ /\ \E s \in {NoResponse, 500} :
                req' = [req EXCEPT ![r] = Failed("put", s, "err")]
          /\ UNCHANGED leased
    /\ UNCHANGED <<sensores, mediciones, now, accepted, collation, ttnApiKey>>

\* await conn.beginTransaction()
PutBegin(r) ==
    /\ req[r].kind = "put" /\ req[r].pc = "begin"
    /\ \/ req' = [req EXCEPT ![r].txn = TRUE, ![r].pc = "update"]
       \/ req' = [req EXCEPT ![r].err = "err", ![r].pc = "rollback"]
    /\ UNCHANGED <<sensores, mediciones, leased, now, accepted, collation, ttnApiKey>>

\* The rows the field UPDATE matches: WHERE id_sensor = ? when id_sensor is
\* given, else WHERE dev_eui = ? with the dev_eui of the body as it came.
PutWhere(b) ==
    IF b.id_sensor # NoId
    THEN {b.id_sensor} \cap DOMAIN sensores
    ELSE RowsByEui(sensores, b.dev_eui)

\* The field UPDATE, inside the transaction: the matched row is written in
\* place and stays locked, its committed image kept for rollback.
PutUpdate(r) ==
    /\ req[r].kind = "put" /\ req[r].pc = "update"
    /\ LET b == req[r].body
           rows == PutWhere(b)
           next == IF b.id_sensor # NoId /\ ~(b.dev_eui = NULL \/ b.dev_eui = <<>>)
                   THEN "backlink" ELSE "commit"
       IN  \/ /\ b.id_sensor = NoId => ~EuiHeld(r, b.dev_eui)
              /\ \A i \in rows : ~Locked(i)
              /\ IF rows = {}
                 THEN /\ req' = [req EXCEPT ![r].affected = 0, ![r].pc = next]
                      /\ UNCHANGED sensores
                 ELSE LET i == CHOOSE i \in rows : TRUE
                      IN  /\ sensores' = [sensores EXCEPT
                                 ![i] = ActualizarCampos(sensores[i], b, now)]
                          /\ req' = [req EXCEPT ![r].affected = Cardinality(rows),
                                                ![r].lockId = i,
                                                ![r].undo = sensores[i],
                                                ![r].pc = next]
           \/ /\ req' = [req EXCEPT ![r].err = "err", ![r].pc = "rollback"]
              /\ UNCHANGED sensores
    /\ UNCHANGED <<mediciones, leased, now, accepted, collation, ttnApiKey>>

\* if (id_sensor && dev_eui): UPDATE sensores SET dev_eui = ? WHERE id_sensor = ?
\* AND (dev_eui IS NULL OR dev_eui = ''), with the dev_eui of the body as it came.
\* SinEui is the second half of that WHERE.
\* SinEuiSiempre is the back-link without it.
SinEuiSiempre(row) == TRUE

SinEui(row) == row.dev_eui = NULL \/ row.dev_eui = <<>>

PutBacklink(r) ==
    /\ req[r].kind = "put" /\ req[r].pc = "backlink"
    /\ LET b == req[r].body
           i == b.id_sensor
           hit == i \in DOMAIN sensores /\ SinEui(sensores[i])
       IN  \/ /\ hit
              /\ ~(Locked(i) /\ LockedBy(r) # i)
              /\ ~EuiHeld(r, b.dev_eui)
              /\ IF DupEntry(b.dev_eui, i)
                 THEN /\ req' = [req EXCEPT ![r].err = "dup", ![r].pc = "rollback"]
                      /\ UNCHANGED sensores
                 ELSE /\ sensores' = [sensores EXCEPT ![i].dev_eui = b.dev_eui]
                      /\ req' = [req EXCEPT
                             ![r].undo = IF LockedBy(r) = i THEN req[r].undo
                                         ELSE sensores[i],
                             ![r].lockId = i,
                             ![r].pc = "commit"]
           \/ /\ ~hit
              /\ req' = [req EXCEPT ![r].pc = "commit"]
              /\ UNCHANGED sensores
           \/ /\ req' = [req EXCEPT ![r].err = "err", ![r].pc = "rollback"]
              /\ UNCHANGED sensores
    /\ UNCHANGED <<mediciones, leased, now, accepted, collation, ttnApiKey>>

\* The end of the handler of task r: the response (NoResponse when none was
\* written), and in the finally block conn.release().
PutEnd(r, s) ==
    /\ req' = [req EXCEPT ![r] =
           [Failed("put", s, req[r].err) EXCEPT
                !.affected = IF s = 200 THEN req[r].affected ELSE 0]]
    /\ leased' = leased - 1

\* await conn.commit(); res.json({ ok: true, affected: r1.affectedRows }).
PutCommit(r) ==
    /\ req[r].kind = "put" /\ req[r].pc = "commit"
    /\ \/ /\ PutEnd(r, 200)
          /\ UNCHANGED sensores
       \/ /\ req' = [req EXCEPT ![r].err = "err", ![r].pc = "rollback"]
          /\ UNCHANGED <<sensores, leased>>
    /\ UNCHANGED <<mediciones, now, accepted, collation, ttnApiKey>>

\* A rollback that leaves the written row as it is.
RollbackNada(r) == sensores

\* What conn.rollback() does to the store: the row the transaction wrote gets
\* its committed image back.
Rollback(r) ==
    IF LockedBy(r) = NoId
    THEN sensores
    ELSE [sensores EXCEPT ![LockedBy(r)] = req[r].undo]

\* catch (e): await conn.rollback(); 409 for ER_DUP_ENTRY, else 500. When the
\* failure was the store's own, rollback() can reject as well: the store drops
\* the transaction, the finally block releases, and no response is written.
PutRollback(r) ==
    /\ req[r].kind = "put" /\ req[r].pc = "rollback"
    /\ sensores' = Rollback(r)
    /\ \/ PutEnd(r, IF req[r].err = "dup" THEN 409 ELSE 500)
       \/ /\ req[r].err = "err"
          /\ PutEnd(r, NoResponse)
    /\ UNCHANGED <<mediciones, now, accepted, collation, ttnApiKey>>

\* ---------------------------------- PUT /api/sensores/actualizar (by dev_eui only)
\* The SET list of the dev_eui-only handler: COALESCE(NULLIF(?, ''), col) for
\* modelo, area, sala and modo, COALESCE(?, col) for zona and umbral_ith.
ActualizarCamposEui(row, b, t) ==
    [row EXCEPT !.modelo = Coalesce(NullIf(b.modelo, <<>>), row.modelo),
                !.area = Coalesce(NullIf(b.area, <<>>), row.area),
                !.zona = Coalesce(b.zona, row.zona),
                !.sala = Coalesce(NullIf(b.sala, <<>>), row.sala),
                !.modo = Coalesce(NullIf(b.modo, <<>>), row.modo),
                !.umbral_ith = Coalesce(b.umbral_ith, row.umbral_ith),
                !.updated_at = t]

\* if (!dev_eui) return 400; dev_eui = String(dev_eui).trim().toUpperCase().
PutEuiRecv(r, b) ==
    /\ Free(r)
    /\ IF b.dev_eui = NULL \/ b.dev_eui = <<>>
       THEN Respond(r, "put_eui", 400)
       ELSE req' = [req EXCEPT ![r] = [Idle EXCEPT !.kind = "put_eui",
                                           !.pc = "select", !.body = b,
                                           !.devEui = toUpperCase(trim(b.dev_eui))]]
    /\ UNCHANGED <<sensores, mediciones, leased, now, accepted, collation, ttnApiKey>>

\* SELECT id_sensor, UPPER(TRIM(dev_eui)) AS eui FROM sensores WHERE dev_eui IS
\* NOT NULL; rows.find(r => r.eui === dev_eui): the first match in the order
\* the store returned the rows, which the statement does not fix.
PutEuiSelect(r) ==
    /\ req[r].kind = "put_eui" /\ req[r].pc = "select"
    /\ \/ LET rows == {i \in DOMAIN Committed :
                          /\ Committed[i].dev_eui # NULL
                          /\ toUpperCase(trim(Committed[i].dev_eui)) = req[r].devEui}
          IN  /\ IF rows = {}
                 THEN Respond(r, "put_eui", 404)
                 ELSE \E i \in rows :
                        req' = [req EXCEPT ![r].idSensor = i, ![r].pc = "update"]
              /\ UNCHANGED <<sensores, mediciones, leased, now, accepted,
                             collation, ttnApiKey>>
       \/ StoreError(r, "put_eui", 500)

\* UPDATE sensores SET ... WHERE id_sensor = ?; res.json({ ok: true }).
PutEuiUpdate(r) ==
    /\ req[r].kind = "put_eui" /\ req[r].pc = "update"
    /\ \/ LET i == req[r].idSensor
          IN  /\ ~Locked(i)
              /\ sensores' = [sensores EXCEPT
                     ![i] = ActualizarCamposEui(sensores[i], req[r].body, now)]
              /\ Respond(r, "put_eui", 200)
              /\ UNCHANGED <<mediciones, leased, now, accepted, collation, ttnApiKey>>
       \/ StoreError(r, "put_eui", 500)

\* The store clock advances.
Tick ==
    /\ now < MaxNow
    /\ now' = now + 1
    /\ UNCHANGED <<sensores, mediciones, req, leased, accepted, collation, ttnApiKey>>

\* ------------------------------------------------------ the utility functions
\* lecturaValida(temperatura, humedad, ith) called on the triple task r holds.
LlamaLecturaValida(r) ==
    /\ req[r].kind = "idle"
    /\ req' = [req EXCEPT
           ![r].kind = "lecturaValida", ![r].pc = "done",
           ![r].valida = lecturaValida(req[r].lectura.temperatura,
                                       req[r].lectura.humedad,
                                       req[r].lectura.ith)]
    /\ UNCHANGED <<sensores, mediciones, leased, now, accepted, collation, ttnApiKey>>

\* normalizarDevEui(raw) called on the text task r holds.
LlamaNormalizar(r) ==
    /\ req[r].kind = "idle"
    /\ req' = [req EXCEPT
           ![r].kind = "normalizarDevEui", ![r].pc = "done",
           ![r].ret = normalizarDevEui(req[r].arg)]
    /\ UNCHANGED <<sensores, mediciones, leased, now, accepted, collation, ttnApiKey>>

\* normalizarDevEui called on what the first call returned.
LlamaNormalizarOtraVez(r) ==
    /\ req[r].kind = "normalizarDevEui"
    /\ req' = [req EXCEPT
           ![r].kind = "normalizarDevEui2",
           ![r].arg = req[r].ret,
           ![r].ret = normalizarDevEui(req[r].ret)]
    /\ UNCHANGED <<sensores, mediciones, leased, now, accepted, collation, ttnApiKey>>

\* ---------------------------------------------------------------- GET /health
\* app.get("/health"): the handler starts; its first statement awaits
\* pool.getConnection().
HealthRecv(r) ==
    /\ Free(r)
    /\ req' = [req EXCEPT ![r] = [Idle EXCEPT !.kind = "health",
                                             !.pc = "getconn"]]
    /\ UNCHANGED <<sensores, mediciones, leased, now, accepted, collation, ttnApiKey>>

\* const conn = await pool.getConnection(), inside the try: a rejection goes
\* to the catch, which answers 500; a full pool makes the call wait
\* (waitForConnections: true).
HealthGetConnection(r) ==
    /\ req[r].kind = "health" /\ req[r].pc = "getconn"
    /\ \/ /\ leased < connectionLimit
          /\ leased' = leased + 1
          /\ req' = [req EXCEPT ![r].conn = TRUE, ![r].pc = "ping"]
       \/ /\ req' = [req EXCEPT ![r] = Failed("health", 500, "err")]
          /\ UNCHANGED leased
    /\ UNCHANGED <<sensores, mediciones, now, accepted, collation, ttnApiKey>>

\* await conn.ping(); conn.release(); res.json({ ok: true }). A rejected ping
\* jumps over conn.release() to the catch, which answers 500: the handler has
\* no finally, and conn goes out of scope still leased.
HealthPing(r) ==
    /\ req[r].kind = "health" /\ req[r].pc = "ping"
    /\ \/ /\ leased' = leased - 1
          /\ Respond(r, "health", 200)
       \/ /\ req' = [req EXCEPT ![r] = Failed("health", 500, "err")]
          /\ UNCHANGED leased
    /\ UNCHANGED <<sensores, mediciones, now, accepted, collation, ttnApiKey>>

\* ------------------------------------------------------------ GET /mediciones
\* Number(text) of a query parameter: the value of a digit, NaN for other text.
NaN == -1

Digitos == <<"0", "1", "2", "3", "4", "5", "6", "7", "8", "9">>

Number(txt) ==
    IF Len(txt) = 1 /\ \E d \in DOMAIN Digitos : Digitos[d] = txt[1]
    THEN (CHOOSE d \in DOMAIN Digitos : Digitos[d] = txt[1]) - 1
    ELSE NaN

\* The last row of an ORDER BY id DESC LIMIT 1 over the rows ks (NoId: none).
Ultima(ks) == IF ks = {} THEN NoId ELSE CHOOSE k \in ks : \A j \in ks : j <= k

\* GET /mediciones?dev_eui=&id_sensor=: one SELECT, chosen by the truthiness of
\* normalizarDevEui(req.query.dev_eui) and of Number(req.query.id_sensor); the
\* answer is the row found, or 404, or 500 when the SELECT fails.
GetMediciones(r, euiQ, idQ) ==
    /\ Free(r)
    /\ \/ LET devEuiQ == normalizarDevEui(euiQ)
              idSensorQ == IF idQ = NULL \/ idQ = <<>> THEN NoId ELSE Number(idQ)
              ks == IF devEuiQ # NULL /\ devEuiQ # <<>>
                    THEN {k \in DOMAIN mediciones :
                             mediciones[k].id_sensor
                                 \in RowsByEui(Committed, devEuiQ)}
                    ELSE IF idSensorQ # NoId /\ idSensorQ # NaN
                    THEN {k \in DOMAIN mediciones :
                             mediciones[k].id_sensor = idSensorQ}
                    ELSE DOMAIN mediciones
          IN  req' = [req EXCEPT ![r] =
                  [Done("get_mediciones", IF ks = {} THEN 404 ELSE 200)
                       EXCEPT !.fila = Ultima(ks)]]
       \/ req' = [req EXCEPT ![r] = Failed("get_mediciones", 500, "err")]
    /\ UNCHANGED <<sensores, mediciones, leased, now, accepted, collation, ttnApiKey>>

\* ------------------------------------------------------- POST /api/downlink
\* The handler of task r ends with response s; what stays readable is the
\* number of fetch calls it made and, in a 502, the remote status and body.
DownlinkEnd(r, s, e) ==
    req' = [req EXCEPT ![r] =
        [Failed("downlink", s, e) EXCEPT
             !.fetches = req[r].fetches,
             !.remoto = IF s = 502 THEN req[r].remoto ELSE NoRemoto]]

\* if (!dev_eui || !cmd) return 400; dev_eui = String(dev_eui).trim().toUpperCase().
DownlinkRecv(r, eui, cmd) ==
    /\ Free(r)
    /\ IF eui = NULL \/ eui = <<>> \/ cmd = NULL \/ cmd = <<>>
       THEN Respond(r, "downlink", 400)
       ELSE req' = [req EXCEPT ![r] =
                [Idle EXCEPT !.kind = "downlink", !.pc = "select",
                             !.devEui = toUpperCase(trim(eui))]]
    /\ UNCHANGED <<sensores, mediciones, leased, now, accepted, collation, ttnApiKey>>

\* The rows SELECT app_id, device_id FROM sensores WHERE UPPER(TRIM(dev_eui)) = ?
\* matches; LIMIT 1 returns any one of them.
DownlinkRows(e) ==
    {i \in DOMAIN Committed :
        /\ Committed[i].dev_eui # NULL
        /\ SqlEq(toUpperCase(trim(Committed[i].dev_eui)), e)}

\* !app_id || !device_id
SinDireccion(row) ==
    \/ row.app_id = NULL \/ row.app_id = <<>>
    \/ row.device_id = NULL \/ row.device_id = <<>>

\* The handler without the check of the addressing pair.
DownlinkSelectSinDireccion(r) ==
    /\ req[r].kind = "downlink" /\ req[r].pc = "select"
    /\ LET rows == DownlinkRows(req[r].devEui)
       IN  IF rows = {}
           THEN DownlinkEnd(r, 404, "none")
           ELSE \E i \in rows :
                  IF ~ttnApiKey
                  THEN DownlinkEnd(r, 500, "none")
                  ELSE req' = [req EXCEPT
                           ![r].fetches = req[r].fetches + 1,
                           ![r].url = <<Committed[i].app_id,
                                        Committed[i].device_id>>,
                           ![r].pc = "fetch"]
    /\ UNCHANGED <<sensores, mediciones, leased, now, accepted, collation, ttnApiKey>>

\* The SELECT and what follows it up to the next await: 404 without a row, 409
\* without the addressing pair, 500 without the credential, else fetch(url) is
\* called with the downlink for the device.
DownlinkSelect(r) ==
    /\ req[r].kind = "downlink" /\ req[r].pc = "select"
    /\ \/ LET rows == DownlinkRows(req[r].devEui)
          IN  IF rows = {}
              THEN DownlinkEnd(r, 404, "none")
              ELSE \E i \in rows :
                     IF SinDireccion(Committed[i])
                     THEN DownlinkEnd(r, 409, "none")
                     ELSE IF ~ttnApiKey
                     THEN DownlinkEnd(r, 500, "none")
                     ELSE req' = [req EXCEPT
                              ![r].fetches = req[r].fetches + 1,
                              ![r].url = <<Committed[i].app_id,
                                           Committed[i].device_id>>,
                              ![r].pc = "fetch"]
       \/ DownlinkEnd(r, 500, "err")
    /\ UNCHANGED <<sensores, mediciones, leased, now, accepted, collation, ttnApiKey>>

\* Response.ok: the status is in the range 200-299.
RemotoOk(resp) == resp.status >= 200 /\ resp.status <= 299

\* const r = await fetch(url, ...): the network server answers, or the call
\* rejects and the catch answers 500.
DownlinkFetch(r, resp) ==
    /\ req[r].kind = "downlink" /\ req[r].pc = "fetch"
    /\ \/ req' = [req EXCEPT ![r].remoto = resp, ![r].pc = "text"]
       \/ DownlinkEnd(r, 500, "err")
    /\ UNCHANGED <<sensores, mediciones, leased, now, accepted, collation, ttnApiKey>>

\* The handler calling fetch again after a response that is not ok.
DownlinkTextReintenta(r) ==
    /\ req[r].kind = "downlink" /\ req[r].pc = "text"
    /\ \/ IF ~RemotoOk(req[r].remoto)
          THEN req' = [req EXCEPT ![r].fetches = req[r].fetches + 1,
                                  ![r].remoto = NoRemoto,
                                  ![r].pc = "fetch"]
          ELSE DownlinkEnd(r, 200, "none")
       \/ DownlinkEnd(r, 500, "err")
    /\ UNCHANGED <<sensores, mediciones, leased, now, accepted, collation, ttnApiKey>>

\* const text = await r.text(); if (!r.ok) return 502 with status and detail;
\* res.json({ ok: true }).
DownlinkText(r) ==
    /\ req[r].kind = "downlink" /\ req[r].pc = "text"
    /\ \/ IF ~RemotoOk(req[r].remoto)
          THEN DownlinkEnd(r, 502, "none")
          ELSE DownlinkEnd(r, 200, "none")
       \/ DownlinkEnd(r, 500, "err")
    /\ UNCHANGED <<sensores, mediciones, leased, now, accepted, collation, ttnApiKey>>

\* ------------------------------------------------------------------ inputs
\* Request payloads: uplink_message with a decoded_payload in range, out of
\* range (85.1 C), not numeric, and without decoded_payload.
Uplink(t, h, i) ==
    [decoded_payload |-> TRUE, temperatura |-> t, humedad |-> h, ith |-> i]

UpOk == Uplink(Num(250), Num(600), Num(700))
UpFuera == Uplink(Num(851), Num(1000), Num(1200))
UpTexto == Uplink(NotNum("string"), Num(500), Num(500))
UpVacio == [Uplink(NotNum("undefined"), NotNum("undefined"), NotNum("undefined"))
               EXCEPT !.decoded_payload = FALSE]

\* dev_eui as requests carry it: absent, without any hex digit, with
\* separators and lower case, canonical; two devices, A1 and B2.
WebhookEuis == {NULL, <<":">>, <<"a", ":", "1">>, <<"B", "2">>}
PostEuis == {NULL, <<":">>, <<"a", "1">>}

\* Bodies of PUT that carry dev_eui as it came (lower case) and no field: the
\* selector when id_sensor is absent, the value to back-link when it is given.
BodiesLink ==
    {Body(id, <<"a", "1">>, NULL, NULL, NULL, NULL, NULL, NULL, NULL) :
        id \in 0..MaxSensores}

\* ------------------------------------------------------------ specification
\* The steps of a handler after its synchronous head.
WebhookStep(r) ==
    \/ getOrCreateSelect(r)
    \/ getOrCreateInsert(r)
    \/ WebhookInsertMedicion(r)

PutStep(r) ==
    \/ PutGetConnection(r)
    \/ PutBegin(r)
    \/ PutUpdate(r)
    \/ PutBacklink(r)
    \/ PutCommit(r)
    \/ PutRollback(r)

PutEuiStep(r) ==
    \/ PutEuiSelect(r)
    \/ PutEuiUpdate(r)

\* Ingestion: both webhooks and POST /sensores, every payload shape. Every
\* dev_eui these handlers store or look up is canonical, so the two collations
\* compare alike and one is enough.
InitIngest == Init /\ collation = "bin" /\ ttnApiKey = TRUE

Next ==
    \E r \in Reqs :
        \/ \E raw \in WebhookEuis, up \in {UpOk, UpFuera, UpTexto, UpVacio} :
               WebhookRecv(r, raw, up)
        \/ WebhookStep(r)
        \/ \E up \in {UpFuera, UpVacio} : WebhookLegacy(r, up)
        \/ \E n \in {NULL, <<"n">>}, raw \in PostEuis :
               PostSensores(r, n, 1, raw)

Spec == InitIngest /\ [][Next]_vars

\* POST /webhook alone: two requests with every kind of identifier and payload.
NextWebhook ==
    \E r \in Reqs :
        \/ \E raw \in WebhookEuis, up \in {UpOk, UpFuera, UpTexto, UpVacio} :
               WebhookRecv(r, raw, up)
        \/ WebhookStep(r)

SpecWebhook == InitIngest /\ [][NextWebhook]_vars

\* Health probes, two at a time, on the pool of ten connections.
NextSalud ==
    \E r \in Reqs :
        \/ HealthRecv(r)
        \/ HealthGetConnection(r)
        \/ HealthPing(r)

SpecSalud == InitIngest /\ [][NextSalud]_vars

\* Two devices: task 1 takes the uplinks of device A1 and task 2 those of
\* device B2, every payload valid, on a store that has seen neither.
EuiDe(r) == IF r = 1 THEN <<"a", ":", "1">> ELSE <<"B", "2">>

NextDistintos ==
    \E r \in 1..2 :
        \/ WebhookRecv(r, EuiDe(r), UpOk)
        \/ WebhookStep(r)

SpecDistintos == InitIngest /\ [][NextDistintos]_vars

\* The downlink relay. No handler under src/ writes app_id or device_id, so the
\* store starts with the rows an operator has addressed: device A1 with both
\* fields, device B2 with one of them missing, and A1 a second time, as the
\* back-link stores it when the body carries it in lower case.
SensorTtn(eui, app, dev) ==
    [Sensor(<<"n">>, 1, eui) EXCEPT !.app_id = app, !.device_id = dev]

TablasDownlink ==
    {<<SensorTtn(<<"A", "1">>, <<"p">>, <<"d">>), SensorTtn(<<"B", "2">>, a, d)>> :
        a \in {NULL, <<"p">>}, d \in {<<>>, <<"d">>}}
    \cup {<<SensorTtn(<<"A", "1">>, <<"p">>, <<"d">>),
            SensorTtn(<<"a", "1">>, NULL, NULL)>>}

InitDownlink ==
    /\ sensores \in TablasDownlink
    /\ mediciones = <<>>
    /\ req = [r \in Reqs |-> Idle]
    /\ leased = 0
    /\ now = 1
    /\ accepted = 0
    /\ collation = "bin"
    /\ ttnApiKey \in BOOLEAN

\* dev_eui and cmd of POST /api/downlink, and answers of the network server.
DownlinkEuis == {NULL, <<" ", "a", "1">>, <<"b", "2">>, <<"C", "3">>}
DownlinkCmds == {NULL, <<"O", "N">>}
NsResponses == {[status |-> 200, text |-> <<>>],
                [status |-> 401, text |-> <<"u">>]}

DownlinkStep(r) ==
    \/ DownlinkSelect(r)
    \/ \E resp \in NsResponses : DownlinkFetch(r, resp)
    \/ DownlinkText(r)

NextDownlink ==
    \E r \in Reqs :
        \/ \E eui \in DownlinkEuis, cmd \in DownlinkCmds : DownlinkRecv(r, eui, cmd)
        \/ DownlinkStep(r)

SpecDownlink == InitDownlink /\ [][NextDownlink]_vars

\* Reading back what the webhooks stored: the query parameters absent, without
\* any hex digit or digit, for device A1, for device B2, for no device.
EuisQuery == {NULL, <<":">>, <<"a", ":", "1">>, <<"B", "2">>}
IdsQuery == {NULL, <<"0">>, <<"1">>, <<"2">>, <<"x">>}

NextLecturas ==
    \E r \in Reqs :
        \/ \E raw \in {<<"a", ":", "1">>, <<"B", "2">>} : WebhookRecv(r, raw, UpOk)
        \/ WebhookStep(r)
        \/ WebhookLegacy(r, UpFuera)
        \/ \E euiQ \in EuisQuery, idQ \in IdsQuery : GetMediciones(r, euiQ, idQ)

SpecLecturas == InitIngest /\ [][NextLecturas]_vars

\* The validator on its own: decoded values as JSON carries them, numbers on
\* both sides of every limit and values of other types.
Temperaturas ==
    {Num(-401), Num(-400), Num(250), Num(850), Num(851), NotNum("string"),
     NotNum("undefined")}
Humedades == {Num(-1), Num(0), Num(600), Num(1000), Num(1001), NotNum("boolean")}
Iths == {Num(-1), Num(0), Num(700), Num(1200), Num(1201), NotNum("object")}

Lecturas ==
    {[temperatura |-> t, humedad |-> h, ith |-> i] :
        t \in Temperaturas, h \in Humedades, i \in Iths}

InitValidador ==
    /\ sensores = <<>>
    /\ mediciones = <<>>
    /\ \E l \in Lecturas :
          req = [r \in Reqs |-> IF r = 1 THEN [Idle EXCEPT !.lectura = l] ELSE Idle]
    /\ leased = 0
    /\ now = 1
    /\ accepted = 0
    /\ collation = "bin"
    /\ ttnApiKey = TRUE

NextValidador == LlamaLecturaValida(1)

SpecValidador == InitValidador /\ [][NextValidador]_vars

\* The normaliser on its own: absent input and every text of up to MaxEui
\* characters over hex digits in both cases, a separator and a letter that is
\* no hex digit.
Alfabeto == {"a", "B", "1", ":", "g", LigaduraFF}
Textos == UNION {[1..n -> Alfabeto] : n \in 0..MaxEui}

InitNormalizador ==
    /\ sensores = <<>>
    /\ mediciones = <<>>
    /\ \E x \in Textos \cup {NULL} :
          req = [r \in Reqs |-> IF r = 1 THEN [Idle EXCEPT !.arg = x] ELSE Idle]
    /\ leased = 0
    /\ now = 1
    /\ accepted = 0
    /\ collation = "bin"
    /\ ttnApiKey = TRUE

NextNormalizador ==
    \/ LlamaNormalizar(1)
    \/ LlamaNormalizarOtraVez(1)

SpecNormalizador == InitNormalizador /\ [][NextNormalizador]_vars

\* One identifier in the forms a client writes it: as the webhook registered
\* device A1 (placeholder name TTN-A1, addressed since by an operator), the
\* EUI reaches the update, the relay and GET /mediciones with a separator, in
\* lower case or canonical.
Formas == {<<"a", ":", "1">>, <<"a", "1">>, <<"A", "1">>}

SensorWebhook ==
    [Sensor(<<"T", "T", "N", "-", "A", "1">>, NoId, <<"A", "1">>)
        EXCEPT !.app_id = <<"p">>, !.device_id = <<"d">>]

BodiesIdentidad ==
    {Body(id, x, NULL, NULL, NULL, NULL, <<"x">>, NULL, NULL) :
        id \in {NoId, 1}, x \in Formas}

InitIdentidad ==
    /\ sensores = <<SensorWebhook>>
    /\ mediciones = <<>>
    /\ req = [r \in Reqs |-> Idle]
    /\ leased = 0
    /\ now = 1
    /\ accepted = 0
    /\ collation \in {"bin", "ci"}
    /\ ttnApiKey = TRUE

NextIdentidad ==
    \/ \E x \in Formas \cup {<<"B", "2">>} : WebhookRecv(1, x, UpOk)
    \/ WebhookStep(1)
    \/ \E b \in BodiesIdentidad : PutRecv(1, b)
    \/ PutStep(1)
    \/ \E b \in BodiesIdentidad : PutEuiRecv(1, b)
    \/ PutEuiStep(1)
    \/ \E x \in Formas : DownlinkRecv(1, x, <<"O", "N">>)
    \/ DownlinkStep(1)
    \/ \E x \in Formas : GetMediciones(1, x, NULL)

SpecIdentidad == InitIdentidad /\ [][NextIdentidad]_vars

\* The registry: every handler that writes dev_eui, racing on the same rows.
NextRegistro ==
    \E r \in Reqs :
        \/ WebhookRecv(r, <<"a", ":", "1">>, UpOk)
        \/ WebhookStep(r)
        \/ \E raw \in {NULL, <<"a", "1">>} : PostSensores(r, <<"n">>, 1, raw)
        \/ \E b \in BodiesLink : PutRecv(r, b)
        \/ PutStep(r)

\* No handler of the registry reads the credential of the relay.
InitRegistro == Init /\ ttnApiKey = TRUE

SpecRegistro == InitRegistro /\ [][NextRegistro]_vars

\* The update transaction: selectors by id and by dev_eui, back-links with two
\* different dev_eui, one field (modo) to tell an update from its rollback.
\* Every dev_eui is canonical here too, so one collation is enough.
BodiesActualizar ==
    {Body(id, eui, NULL, NULL, NULL, NULL, <<"m">>, NULL, NULL) :
        id \in 0..MaxSensores, eui \in {NULL, <<"A", "1">>, <<"B", "2">>}}

NextActualizar ==
    \E r \in Reqs :
        \/ \E raw \in {NULL, <<":">>, <<"A", "1">>} :
               PostSensores(r, <<"n">>, 1, raw)
        \/ \E b \in BodiesActualizar : PutRecv(r, b)
        \/ PutStep(r)

SpecActualizar == InitIngest /\ [][NextActualizar]_vars

\* Field merging: one Sensor whose fields an earlier update has set, updated
\* by one request after the other through both update handlers. A body names
\* any subset of modelo, area, zona, sala, modo with one value, and a threshold
\* or none.
Campo(S, f, v) == IF f \in S THEN v ELSE NULL

BodiesCampos(id, eui, valores) ==
    {Body(id, eui, Campo(S, "modelo", v), Campo(S, "area", v),
          Campo(S, "zona", v), Campo(S, "sala", v), Campo(S, "modo", v), um,
          NULL) :
        S \in SUBSET {"modelo", "area", "zona", "sala", "modo"},
        v \in valores, um \in {NULL, <<"8">>}}

\* The body { id_sensor: 1, modelo: "" }.
BodyModeloVacio == Body(1, NULL, <<>>, NULL, NULL, NULL, NULL, NULL, NULL)

\* The body { id_sensor: 1, dev_eui: "A1", zona: "x" }.
BodyConEui ==
    Body(1, <<"A", "1">>, NULL, NULL, <<"x">>, NULL, NULL, NULL, NULL)

\* The Sensor of device A1 after POST /sensores and a first update that set
\* every field.
SensorViejo ==
    [Sensor(<<"n">>, 1, <<"A", "1">>) EXCEPT
        !.modelo = <<"o">>, !.area = <<"o">>, !.zona = <<"o">>,
        !.sala = <<"o">>, !.modo = <<"o">>, !.umbral_ith = <<"7">>,
        !.updated_at = 1]

InitCampos ==
    /\ sensores = <<SensorViejo>>
    /\ mediciones = <<>>
    /\ req = [r \in Reqs |-> Idle]
    /\ leased = 0
    /\ now = 1
    /\ accepted = 0
    /\ collation = "bin"
    /\ ttnApiKey = TRUE

NextCampos ==
    \/ \E b \in BodiesCampos(1, NULL, {<<"x">>})
                  \cup {BodyModeloVacio, BodyConEui} :
          PutRecv(1, b)
    \/ PutStep(1)
    \/ \E b \in BodiesCampos(NoId, <<"a", "1">>, {<<"x">>, <<>>}) : PutEuiRecv(1, b)
    \/ PutEuiStep(1)
    \/ Tick

SpecCampos == InitCampos /\ [][NextCampos]_vars

\* The frame of the update: a store with a Sensor without EUI, the Sensor of
\* device A1 and a Measurement of it; bodies with either selector or both, a
\* field, the threshold and dev_id, each present or not.
BodiesMarco ==
    {Body(id, eui, mo, NULL, NULL, NULL, NULL, um, di) :
        id \in 0..2, eui \in {NULL, <<"A", "1">>, <<"B", "2">>},
        mo \in {NULL, <<"x">>}, um \in {NULL, <<"8">>}, di \in {NULL, <<"d">>}}

InitMarco ==
    /\ sensores = <<Sensor(<<"n">>, 1, NULL), SensorViejo>>
    /\ mediciones = <<Medicion(2, Num(250), Num(600), Num(700))>>
    /\ req = [r \in Reqs |-> Idle]
    /\ leased = 0
    /\ now = 2
    /\ accepted = 1
    /\ collation = "bin"
    /\ ttnApiKey = TRUE

NextMarco ==
    \/ \E b \in BodiesMarco : PutRecv(1, b)
    \/ PutStep(1)
    \/ \E b \in BodiesMarco : PutEuiRecv(1, b)
    \/ PutEuiStep(1)

SpecMarco == InitMarco /\ [][NextMarco]_vars

\* ------------------------------------------------------------------- claims
\* Two rows of table tbl never hold the same non-null dev_eui.
EuiUnico(tbl) ==
    \A i, j \in DOMAIN tbl :
        (i # j /\ tbl[i].dev_eui # NULL) => tbl[i].dev_eui # tbl[j].dev_eui

\* C1: in every state reached by interleaved POST /webhook, POST /sensores and
\* PUT /api/sensores/actualizar requests there is at most one Sensor row for
\* each non-null EUI, in the rows as written and in their committed images.
C1_UnSensorPorEui == EuiUnico(sensores) /\ EuiUnico(Committed)

\* Two webhook calls for the same unseen EUI both missed their lookup; one has
\* inserted the Sensor and the other is about to run its INSERT.
C1_Witness ==
    \E r1, r2 \in Reqs :
        /\ r1 # r2
        /\ req[r1].kind = "webhook" /\ req[r1].pc = "insert_medicion"
        /\ req[r1].creado
        /\ req[r2].kind = "webhook" /\ req[r2].pc = "insert_sensor"
        /\ req[r2].devEui = req[r1].devEui
        /\ sensores[req[r1].idSensor].dev_eui = req[r1].devEui

\* C2: a webhook call whose lookup missed and whose INSERT in
\* getOrCreateSensorByDevEui then meets the placeholder another webhook call
\* created for the same EUI does not fail: unless the store itself fails, it
\* goes on to store its Measurement under that Sensor's id.
C2_PerdedorCompleta ==
    [][\A r \in Reqs :
          (/\ req[r].kind = "webhook" /\ req[r].pc = "insert_sensor"
           /\ \E i \in RowsByEui(sensores, req[r].devEui) :
                  sensores[i].nombre_sensor = <<"T", "T", "N", "-">> \o req[r].devEui
           /\ req'[r] # req[r]
           /\ req'[r].err # "err")
              => (/\ req'[r].pc = "insert_medicion"
                  /\ req'[r].idSensor \in RowsByEui(sensores, req[r].devEui))
      ]_vars

\* The bounds of a stored reading, in tenths: temperature in [-40, 85],
\* humidity in [0, 100], ITH in [0, 120].
EnRango(m) ==
    /\ m.temperatura.type = "number"
    /\ m.temperatura.v >= -400 /\ m.temperatura.v <= 850
    /\ m.humedad.type = "number" /\ m.humedad.v >= 0 /\ m.humedad.v <= 1000
    /\ m.ith.type = "number" /\ m.ith.v >= 0 /\ m.ith.v <= 1200

\* Task r takes a step of the new-schema webhook from position pc.
WebhookEn(r, pc) ==
    req[r].kind = "webhook" /\ req[r].pc = pc /\ req'[r] # req[r]

\* C5: every Measurement row persisted by POST /webhook references
\* an existing Sensor and has its three values within the bounds.
C5_TodaMedicionValida ==
    \A k \in DOMAIN mediciones :
        mediciones[k].id_sensor \in DOMAIN sensores /\ EnRango(mediciones[k])

\* What holds of the counts in every step, whatever the claim's last clause:
\* Measurements are appended one at a time and never changed, as many as
\* webhook calls were answered 200; a new-schema call answers 200 exactly when
\* it stored its Measurement, under the Sensor of its EUI; it creates a Sensor
\* only in getOrCreateSensorByDevEui, only one, and only for an EUI no row holds.
UnaMedicionPorAceptada ==
    /\ accepted' = Len(mediciones')
    /\ Len(mediciones') \in {Len(mediciones), Len(mediciones) + 1}
    /\ SubSeq(mediciones', 1, Len(mediciones)) = mediciones
    /\ \A r \in Reqs :
        /\ (WebhookEn(r, "insert_medicion") /\ req'[r].pc = "done")
              => /\ req'[r].status = 200 <=> Len(mediciones') = Len(mediciones) + 1
                 /\ req'[r].status = 200
                       => LET m == mediciones'[Len(mediciones')]
                          IN  /\ m.id_sensor = req[r].idSensor
                              /\ m.id_sensor \in DOMAIN sensores
                              /\ sensores[m.id_sensor].dev_eui = req[r].devEui
        /\ WebhookEn(r, "insert_sensor")
              => /\ req'[r].pc = "insert_medicion"
                       <=> Len(sensores') = Len(sensores) + 1
                 /\ Len(sensores') # Len(sensores)
                       => /\ RowsByEui(sensores, req[r].devEui) = {}
                          /\ SubSeq(sensores', 1, Len(sensores)) = sensores
                          /\ sensores'[Len(sensores')].dev_eui = req[r].devEui
        /\ (req[r].kind = "webhook" /\ req[r].pc # "insert_sensor"
            /\ req'[r] # req[r] /\ req'[r].kind = "webhook"
            /\ req'[r].pc # "select")
              => sensores' = sensores

\* C6 as stated: the counts above, and a call that created the Sensor of an
\* unseen EUI never ends without having stored its Measurement.
C6_SensorYMedicionJuntos ==
    [][/\ UnaMedicionPorAceptada
       /\ \A r \in Reqs :
            (WebhookEn(r, "insert_medicion") /\ req[r].creado
             /\ req'[r].pc = "done")
                => /\ req'[r].status = 200
                   /\ Len(mediciones') = Len(mediciones) + 1
      ]_vars

\* C6 amended: the counts above; a call that created the Sensor of an unseen
\* EUI ends either 200 with its Measurement stored or, when the INSERT INTO
\* mediciones fails, 500 with the Sensor left without that Measurement.
C6_UnaMedicionPorAceptada ==
    [][/\ UnaMedicionPorAceptada
       /\ \A r \in Reqs :
            (WebhookEn(r, "insert_medicion") /\ req[r].creado
             /\ req'[r].pc = "done")
                => \/ /\ req'[r].status = 200
                      /\ Len(mediciones') = Len(mediciones) + 1
                   \/ /\ req'[r].status = 500 /\ req'[r].err = "err"
                      /\ mediciones' = mediciones
                      /\ req[r].idSensor \in DOMAIN sensores'
      ]_vars

\* Two calls were accepted, one of them for an unseen EUI: it created its
\* Sensor and stored its Measurement under it.
C6_Witness ==
    /\ accepted = 2
    /\ \E r \in Reqs :
          /\ req[r].kind = "webhook" /\ req[r].status = 200
          /\ \E k \in DOMAIN mediciones, i \in DOMAIN sensores :
                /\ mediciones[k].id_sensor = i
                /\ sensores[i].nombre_sensor =
                       <<"T", "T", "N", "-">> \o sensores[i].dev_eui

\* C8: resolve-or-create over calls one after the other. A call whose SELECT
\* finds the EUI returns the id of that row and adds no row; a call whose
\* SELECT missed and whose INSERT succeeds adds exactly one row, the
\* placeholder TTN-<EUI> with that EUI and no farm, and returns its new id;
\* all calls that resolved one EUI hold the same id, of the only row with it.
C8_ResolverOCrearIdempotente ==
    [][\A r \in Reqs :
        /\ (WebhookEn(r, "select") /\ req'[r].err # "err"
            /\ RowsByEui(Committed, req[r].devEui) # {})
              => /\ req'[r].pc = "insert_medicion"
                 /\ req'[r].idSensor \in RowsByEui(Committed, req[r].devEui)
                 /\ sensores' = sensores
        /\ (WebhookEn(r, "insert_sensor") /\ req'[r].pc = "insert_medicion")
              => /\ RowsByEui(sensores, req[r].devEui) = {}
                 /\ sensores' = Append(sensores,
                        Sensor(<<"T", "T", "N", "-">> \o req[r].devEui, NoId,
                               req[r].devEui))
                 /\ req'[r].idSensor = Len(sensores')
        /\ (req'[r].kind = "webhook" /\ req'[r].pc = "insert_medicion")
              => /\ RowsByEui(sensores', req'[r].devEui) = {req'[r].idSensor}
                 /\ \A q \in Reqs :
                      (/\ req'[q].kind = "webhook"
                       /\ req'[q].pc = "insert_medicion"
                       /\ req'[q].devEui = req'[r].devEui)
                          => req'[q].idSensor = req'[r].idSensor
      ]_vars

\* A later call for an EUI resolved, by its SELECT, the placeholder an earlier
\* call had created.
C8_Witness ==
    \E r \in Reqs :
        /\ req[r].kind = "webhook" /\ req[r].pc = "insert_medicion"
        /\ ~req[r].creado
        /\ sensores[req[r].idSensor].nombre_sensor =
               <<"T", "T", "N", "-">> \o req[r].devEui

\* Task r takes a step of the transactional update handler from position pc.
PutEn(r, pc) == req[r].kind = "put" /\ req[r].pc = pc /\ req'[r] # req[r]

Vacio(e) == e = NULL \/ e = <<>>

C4_EuiInmutable ==
    [][\A i \in DOMAIN sensores :
        /\ ~Vacio(Committed[i].dev_eui)
              => Committed'[i].dev_eui = Committed[i].dev_eui
        /\ sensores'[i].dev_eui # sensores[i].dev_eui
              => \/ Vacio(sensores[i].dev_eui)
                 \/ /\ Vacio(sensores'[i].dev_eui)
                    /\ \E r \in Reqs : PutEn(r, "rollback") /\ LockedBy(r) = i
      ]_vars

\* An update that named a Sensor holding an EUI and asked for another one has
\* run its back-link and is about to commit.
C4_Witness ==
    \E r \in Reqs :
        /\ req[r].kind = "put" /\ req[r].pc = "commit"
        /\ req[r].body.id_sensor \in DOMAIN sensores
        /\ ~Vacio(req[r].body.dev_eui)
        /\ ~Vacio(sensores[req[r].body.id_sensor].dev_eui)
        /\ sensores[req[r].body.id_sensor].dev_eui # req[r].body.dev_eui

\* C7: every transactional update handler that has ended wrote a response,
\* holds no connection and no open transaction, and the pool has exactly the
\* connections of the running handlers leased.
C7_SiempreRespondeYLibera ==
    /\ \A r \in Reqs :
          (req[r].kind = "put" /\ req[r].pc = "done")
              => /\ req[r].status # NoResponse
                 /\ ~req[r].conn /\ ~req[r].txn
    /\ leased = Cardinality({r \in Reqs : req[r].conn})

CamposPatch == {"modelo", "area", "zona", "sala", "modo"}

\* Task r runs the field UPDATE of the transactional handler on a matched Sensor.
ActualizaPut(r) == PutEn(r, "update") /\ req'[r].lockId # NoId

\* Task r runs the UPDATE of the dev_eui-only handler on its matched Sensor.
ActualizaPutEui(r) ==
    /\ req[r].kind = "put_eui" /\ req[r].pc = "update"
    /\ req'[r].pc = "done" /\ req'[r].status = 200

\* The row i after an update with body b is the merge of b into the row
\* before: the fields b supplies (presente) take b's value, the others stay.
MergePatch(i, b, presente(_, _)) ==
    /\ \A f \in CamposPatch :
          sensores'[i][f] = IF presente(f, b[f]) THEN b[f] ELSE sensores[i][f]
    /\ sensores'[i].updated_at = now
    /\ sensores'[i].nombre_sensor = sensores[i].nombre_sensor
    /\ sensores'[i].id_granja = sensores[i].id_granja
    /\ sensores'[i].dev_eui = sensores[i].dev_eui

NoNulo(f, v) == v # NULL

ConValor(f, v) == v # NULL /\ (f = "zona" \/ v # <<>>)

\* C9: every update of a matched Sensor, by either handler, sets umbral_ith
\* to the value of the body, null when the body has none, and leaves the
\* other fields alone where the body has null.
C9_UmbralVerbatim ==
    [][\A r \in Reqs :
        /\ ActualizaPut(r)
              => LET i == req'[r].lockId
                 IN  /\ sensores'[i].umbral_ith = req[r].body.umbral_ith
                     /\ \A f \in CamposPatch :
                           req[r].body[f] = NULL
                               => sensores'[i][f] = sensores[i][f]
        /\ ActualizaPutEui(r)
              => LET i == req[r].idSensor
                 IN  /\ sensores'[i].umbral_ith = req[r].body.umbral_ith
                     /\ \A f \in CamposPatch :
                           req[r].body[f] = NULL
                               => sensores'[i][f] = sensores[i][f]
      ]_vars

Uplinks == {UpOk, UpFuera, UpTexto, UpVacio}

\* A dev_eui that normalises to nothing: absent, or without any hex digit.
SinHex(raw) ==
    \/ raw = NULL
    \/ \A k \in DOMAIN raw :
          raw[k] \notin HexChars \cup {"a", "b", "c", "d", "e", "f"}

WebhookPcs == {"select", "insert_sensor", "insert_medicion"}

\* C11: the status of POST /webhook tells the failure. Without a decoded
\* payload the answer is 400, without an identifier left after normalising
\* 400, with a reading out of range or not numeric 422, and none of these is
\* 200 or 500; a request past the three checks is answered 200 or 500 only,
\* 500 exactly when a store statement of it failed and 200 exactly when its
\* Measurement was stored.
C11_EstadoDistingueFallo ==
    [][\A r \in Reqs :
        /\ \A raw \in WebhookEuis, up \in Uplinks :
              (Free(r) /\ req'[r] # req[r] /\ WebhookRecv(r, raw, up))
                  => IF ~up.decoded_payload \/ SinHex(raw)
                     THEN req'[r].pc = "done" /\ req'[r].status = 400
                     ELSE IF ~EnRango(up)
                     THEN req'[r].pc = "done" /\ req'[r].status = 422
                     ELSE req'[r].pc = "select" /\ req'[r].status = NoResponse
        /\ (req[r].kind = "webhook" /\ req[r].pc \in WebhookPcs
            /\ req'[r] # req[r])
              => /\ req'[r].status \in {NoResponse, 200, 500}
                 /\ req'[r].status = NoResponse <=> req'[r].pc \in WebhookPcs
                 /\ req'[r].status = 500 <=> req'[r].err \in {"err", "dup"}
                 /\ req'[r].status = 200
                       <=> /\ req[r].pc = "insert_medicion"
                           /\ Len(mediciones') = Len(mediciones) + 1
      ]_vars

\* One request was answered 422 and another, past the checks, 500.
C11_Witness ==
    \E r1, r2 \in Reqs :
        /\ req[r1].kind = "webhook" /\ req[r1].status = 422
        /\ req[r2].kind = "webhook" /\ req[r2].status = 500
        /\ req[r2].err = "err"

\* C12: a POST /webhook request rejected at the payload, identifier or
\* validation check runs no store statement: the step that answers it leaves
\* both tables as they are, and every task that reached a store statement
\* carries an identifier and a reading that passed the checks, so no
\* placeholder Sensor is ever inserted for an invalid reading.
C12_RechazoSinTocarStore ==
    [][\A r \in Reqs :
        /\ \A raw \in WebhookEuis, up \in Uplinks :
              (Free(r) /\ req'[r] # req[r] /\ WebhookRecv(r, raw, up)
               /\ (~up.decoded_payload \/ SinHex(raw) \/ ~EnRango(up)))
                  => /\ req'[r].pc = "done"
                     /\ sensores' = sensores /\ mediciones' = mediciones
        /\ (req'[r].kind = "webhook" /\ req'[r].pc \in WebhookPcs)
              => /\ EnRango(req'[r].lectura)
                 /\ req'[r].devEui # NULL /\ req'[r].devEui # <<>>
        /\ (req[r].kind = "webhook" /\ req[r].pc \in WebhookPcs
            /\ req'[r] # req[r] /\ Len(sensores') # Len(sensores))
              => /\ req[r].pc = "insert_sensor"
                 /\ EnRango(req[r].lectura)
      ]_vars

\* A request with a reading out of range and one without identifier were
\* rejected, and the store is as empty as before them.
C12_Witness ==
    \E r1, r2 \in Reqs :
        /\ req[r1].kind = "webhook" /\ req[r1].status = 422
        /\ req[r2].kind = "webhook" /\ req[r2].status = 400
        /\ sensores = <<>> /\ mediciones = <<>>

\* The network server answered with a success.
RemotoEsExito(resp) == resp.status \in 200..299

\* Task r takes a step of the downlink handler from position pc.
DownlinkEn(r, pc) ==
    req[r].kind = "downlink" /\ req[r].pc = pc /\ req'[r] # req[r]

\* The Sensors whose stored EUI, trimmed and in upper case, is e.
SensoresDe(e) ==
    {i \in DOMAIN sensores :
        sensores[i].dev_eui # NULL /\ toUpperCase(trim(sensores[i].dev_eui)) = e}

Direccionado(i) ==
    /\ sensores[i].app_id # NULL /\ sensores[i].app_id # <<>>
    /\ sensores[i].device_id # NULL /\ sensores[i].device_id # <<>>

\* C13: the relay calls the network server only for a Sensor that was found
\* and has both addressing fields, with the credential set. A request without
\* dev_eui or cmd is answered 400, one whose EUI no Sensor has 404, one whose
\* Sensor lacks app_id or device_id 409, one without credential 500, and a
\* task that has written one of these answers has made no fetch call.
C13_SinLlamadaSinDireccion ==
    [][\A r \in Reqs :
        /\ \A eui \in DownlinkEuis, cmd \in DownlinkCmds :
              (DownlinkRecv(r, eui, cmd)
               /\ (eui = NULL \/ eui = <<>> \/ cmd = NULL \/ cmd = <<>>))
                  => /\ req'[r].pc = "done" /\ req'[r].status = 400
                     /\ req'[r].fetches = 0
        /\ (DownlinkEn(r, "select") /\ req'[r].err = "none")
              => LET ss == SensoresDe(req[r].devEui)
                 IN  /\ ss = {} <=> req'[r].status = 404
                     /\ req'[r].status = 409
                           => \E i \in ss : ~Direccionado(i)
                     /\ (ss # {} /\ \A i \in ss : ~Direccionado(i))
                           => req'[r].status = 409
                     /\ (req'[r].status = 500 \/ req'[r].pc = "fetch")
                           => \E i \in ss : Direccionado(i)
                     /\ req'[r].status = 500 <=> (req'[r].pc = "done" /\ ~ttnApiKey
                                                  /\ req'[r].status \notin {404, 409})
                     /\ req'[r].pc = "fetch"
                           => /\ ttnApiKey
                              /\ \E i \in ss :
                                    /\ Direccionado(i)
                                    /\ req'[r].url = <<sensores[i].app_id,
                                                       sensores[i].device_id>>
                     /\ req'[r].pc \in {"done", "fetch"}
        /\ (req'[r].kind = "downlink" /\ req'[r].fetches > 0
            /\ req'[r] # req[r])
              => (req[r].kind = "downlink"
                  /\ req[r].pc \in {"select", "fetch", "text"}
                  /\ (req[r].pc = "select" => req'[r].pc = "fetch"))
        /\ (req'[r].kind = "downlink" /\ req'[r].pc = "done"
            /\ req'[r].status \in {400, 404, 409})
              => req'[r].fetches = 0
      ]_vars

\* A request for a Sensor without its addressing pair was answered 409, with
\* no fetch call, while another request has its fetch call under way.
C13_Witness ==
    \E r1, r2 \in Reqs :
        /\ req[r1].kind = "downlink" /\ req[r1].status = 409
        /\ req[r1].fetches = 0
        /\ req[r2].kind = "downlink" /\ req[r2].pc = "fetch"
        /\ req[r2].fetches = 1

\* C14: a downlink invocation calls fetch at most once. A response of the
\* network server that is not a success is not retried: the handler ends 502
\* carrying the remote status and body; 200 is answered only after a response
\* that is a success; no step of the relay changes a table of the store.
C14_UnIntentoPorLlamada ==
    [][\A r \in Reqs :
        /\ req'[r].fetches <= 1
        /\ (req[r].kind = "downlink" /\ req'[r] # req[r]
            /\ req[r].pc \in {"select", "fetch", "text"})
              => /\ sensores' = sensores /\ mediciones' = mediciones
                 /\ req'[r].fetches # req[r].fetches => req[r].pc = "select"
        /\ DownlinkEn(r, "text")
              => /\ req'[r].pc = "done"
                 /\ req'[r].fetches = 1
                 /\ (~RemotoEsExito(req[r].remoto) /\ req'[r].err = "none")
                       => /\ req'[r].status = 502
                          /\ req'[r].remoto = req[r].remoto
                 /\ req'[r].status = 502 => ~RemotoEsExito(req[r].remoto)
                 /\ req'[r].status = 200 => RemotoEsExito(req[r].remoto)
        /\ (req'[r].kind = "downlink" /\ req'[r].status = 200)
              => (req[r].kind = "downlink" /\ req[r].pc \in {"text", "done"})
      ]_vars

\* The network server answered 401 and the handler ended 502 with that status
\* and body, after its one fetch call.
C14_Witness ==
    \E r \in Reqs :
        /\ req[r].kind = "downlink" /\ req[r].status = 502
        /\ req[r].fetches = 1
        /\ req[r].remoto = [status |-> 401, text |-> <<"u">>]

\* C15: PUT /api/sensores/actualizar, in either handler, answers 400 with the
\* store untouched when the body has no selector, 404 when the selector
\* matches no Sensor, and 200 (with the count of affected rows) only when a
\* Sensor was matched and updated.
C15_EstadosDeActualizar ==
    [][\A r \in Reqs :
        /\ \A b \in BodiesActualizar :
              (PutRecv(r, b) /\ b.id_sensor = NoId /\ Vacio(b.dev_eui))
                  => /\ req'[r].pc = "done" /\ req'[r].status = 400
                     /\ sensores' = sensores
        /\ (PutEn(r, "update") /\ req'[r].err = "none"
            /\ PutWhere(req[r].body) = {})
              => req'[r].pc = "done" /\ req'[r].status = 404
        /\ (req'[r].kind = "put" /\ req'[r].pc = "done"
            /\ req'[r].status = 200)
              => req'[r].affected >= 1
        /\ (req[r].kind = "put_eui" /\ req[r].pc = "select"
            /\ req'[r] # req[r] /\ req'[r].err = "none"
            /\ SensoresDe(req[r].devEui) = {})
              => req'[r].pc = "done" /\ req'[r].status = 404
        /\ (req[r].kind = "put_eui" /\ req'[r] # req[r]
            /\ req'[r].pc = "done" /\ req'[r].status = 200)
              => /\ req[r].pc = "update"
                 /\ sensores'[req[r].idSensor].updated_at = now
      ]_vars

\* The Measurements a filter of GET /mediciones selects: those of the Sensor
\* with the EUI when dev_eui is supplied, else those of the Sensor with the id
\* when id_sensor is supplied, else all.
Filtradas(euiQ, idQ) ==
    IF euiQ # NULL
    THEN {k \in DOMAIN mediciones :
             /\ mediciones[k].id_sensor \in DOMAIN sensores
             /\ sensores[mediciones[k].id_sensor].dev_eui # NULL
             /\ sensores[mediciones[k].id_sensor].dev_eui = normalizarDevEui(euiQ)}
    ELSE IF idQ # NULL
    THEN {k \in DOMAIN mediciones :
             \E d \in DOMAIN Digitos :
                 Digitos[d] = idQ[1] /\ mediciones[k].id_sensor = d - 1}
    ELSE DOMAIN mediciones

\* C16: GET /mediciones answers with the last inserted Measurement among those
\* its filter selects and 404 when the filter selects none; the last
\* Measurement of the whole table is the answer only without any filter.
C16_UltimaFiltrada ==
    [][\A r \in Reqs : \A euiQ \in EuisQuery, idQ \in IdsQuery :
        (GetMediciones(r, euiQ, idQ) /\ req'[r].err = "none")
            => LET ks == Filtradas(euiQ, idQ)
               IN  IF ks = {}
                   THEN req'[r].status = 404
                   ELSE /\ req'[r].status = 200
                        /\ req'[r].fila \in ks
                        /\ \A k \in ks : k <= req'[r].fila
      ]_vars

\* C17: lecturaValida accepts a triple exactly when its three values are
\* numbers with the temperature in [-40, 85], the humidity in [0, 100] and
\* the ITH in [0, 120], limits included.
C17_ValidadorExacto ==
    \A r \in Reqs :
        req[r].kind = "lecturaValida"
            => (req[r].valida <=> EnRango(req[r].lectura))

\* The triple on the upper limits, (85, 100, 120), was accepted, and so the
\* validator has run.
C17_Witness ==
    \E r \in Reqs :
        /\ req[r].kind = "lecturaValida" /\ req[r].valida
        /\ req[r].lectura = [temperatura |-> Num(850), humedad |-> Num(1000),
                             ith |-> Num(1200)]

\* C18: normalizarDevEui is idempotent: called on its own result, for any
\* input (absent and without hex digit included), it returns that result.
C18_NormalizarIdempotente ==
    \A r \in Reqs : req[r].kind = "normalizarDevEui2" => req[r].ret = req[r].arg

\* A canonical EUI: not empty, hex digits in upper case only.
Canonico(e) == e # <<>> /\ \A k \in DOMAIN e : e[k] \in HexChars

\* C19: every EUI stored on a Sensor that is not NULL is canonical, whichever
\* of the webhook, POST /sensores and the back-link stored it.
C19_EuiCanonico ==
    \A i \in DOMAIN sensores :
        sensores[i].dev_eui # NULL => Canonico(sensores[i].dev_eui)

\* The Sensors the update of task r is about: the one its selector names, and
\* in a rollback the one its transaction wrote.
Seleccionados(r) ==
    IF req[r].kind = "put_eui" THEN {req[r].idSensor}
    ELSE IF req[r].pc = "rollback" THEN {LockedBy(r)}
    ELSE IF req[r].body.id_sensor # NoId THEN {req[r].body.id_sensor}
    ELSE RowsByEui(sensores, req[r].body.dev_eui)

\* C20: a step of an update handler changes no Measurement and no Sensor but
\* the matched one, adds and removes no row, and on the matched Sensor leaves
\* the display name, the farm and the addressing fields of the network
\* server (dev_id, app_id, device_id) as they were; the EUI changes only in
\* the back-link or its rollback.
C20_MarcoDeActualizar ==
    [][\A r \in Reqs :
        (req[r].kind \in {"put", "put_eui"} /\ req'[r] # req[r]
         /\ req[r].pc # "done")
            => /\ mediciones' = mediciones
               /\ DOMAIN sensores' = DOMAIN sensores
               /\ \A i \in DOMAIN sensores :
                    /\ sensores'[i].nombre_sensor = sensores[i].nombre_sensor
                    /\ sensores'[i].id_granja = sensores[i].id_granja
                    /\ sensores'[i].dev_id = sensores[i].dev_id
                    /\ sensores'[i].app_id = sensores[i].app_id
                    /\ sensores'[i].device_id = sensores[i].device_id
                    /\ sensores'[i] # sensores[i] => i \in Seleccionados(r)
                    /\ sensores'[i].dev_eui # sensores[i].dev_eui
                          => req[r].kind = "put"
                             /\ req[r].pc \in {"backlink", "rollback"}
      ]_vars

\* C21: requests of different devices do not interfere. With task 1 serving
\* device A1 and task 2 device B2 on a store that knew neither, a step of a
\* request in which no store statement fails never ends it with an error,
\* the Measurement it stores references a Sensor that holds its own EUI, and
\* once both tasks have answered 200 the store holds one Sensor of each EUI,
\* two in all.
C21_DispositivosDistintos ==
    [][/\ \A r \in 1..2 :
            (req[r].kind = "webhook" /\ req[r].pc \in WebhookPcs
             /\ req'[r] # req[r] /\ req'[r].err # "err")
                => /\ req'[r].status \in {NoResponse, 200}
                   /\ req[r].pc = "insert_medicion"
                         => /\ req'[r].status = 200
                            /\ Len(mediciones') = Len(mediciones) + 1
                            /\ LET i == mediciones'[Len(mediciones')].id_sensor
                               IN  /\ i \in DOMAIN sensores'
                                   /\ sensores'[i].dev_eui
                                         = normalizarDevEui(EuiDe(r))
       /\ (req'[1].status = 200 /\ req'[2].status = 200)
            => /\ Len(sensores') = 2
               /\ \A r \in 1..2 :
                     Cardinality({i \in DOMAIN sensores' :
                         sensores'[i].dev_eui = normalizarDevEui(EuiDe(r))}) = 1
      ]_vars

\* Both requests were answered 200 after their statements interleaved: the
\* Sensor of B2 was inserted first, the Measurement of A1 stored first.
C21_Witness ==
    /\ req[1].status = 200 /\ req[2].status = 200
    /\ Len(sensores) = 2 /\ sensores[1].dev_eui = <<"B", "2">>
    /\ Len(mediciones) = 2
    /\ mediciones[1].id_sensor = 2 /\ mediciones[2].id_sensor = 1

\* A hexadecimal digit, in either case.
EsHex(c) == c \in HexChars \cup {"a", "b", "c", "d", "e", "f"}

\* The hexadecimal digits of a text in their order, letters in upper case.
DigitosHex(x) ==
    LET h == SelectSeq(x, EsHex)
    IN  [i \in DOMAIN h |-> toUpperCaseChar(h[i])]

\* C22: for every input text normalizarDevEui returns exactly the input's
\* hexadecimal digits in their order with the letters in upper case, so
\* nothing outside 0-9 and A-F; for an absent input, or one without any
\* hexadecimal digit, the result is null or empty.
C22_NormalizarExacto ==
    \A r \in Reqs :
        req[r].kind = "normalizarDevEui"
            => IF req[r].arg = NULL \/ DigitosHex(req[r].arg) = <<>>
               THEN req[r].ret \in {NULL, <<>>}
               ELSE /\ req[r].ret = DigitosHex(req[r].arg)
                    /\ \A k \in DOMAIN req[r].ret : req[r].ret[k] \in HexChars

\* C23: every connection GET /health leases is released again, whether the
\* ping succeeds or fails: the connections leased from the pool are those of
\* the probes that are between getConnection and the end of the ping, so with
\* no probe running none is leased and the pool never fills up with
\* connections nobody holds.
C23_SaludLiberaConexion ==
    leased = Cardinality({r \in Reqs : req[r].kind = "health" /\ req[r].conn})

\* The Sensors registered under the canonical form of the identifier x.
Registrados(x) ==
    {i \in DOMAIN sensores :
        sensores[i].dev_eui # NULL /\ sensores[i].dev_eui = normalizarDevEui(x)}

\* C24: an EUI in any textual form resolves, in every endpoint, the Sensor
\* the webhook registered under its canonical form. When such a Sensor
\* exists, the update selected by dev_eui writes it (either handler), the
\* relay does not answer 404 and addresses it, and GET /mediciones answers
\* with a Measurement of it, or 404 only when it has none.
C24_IdentidadCoherente ==
    [][\A r \in Reqs :
        /\ (PutEn(r, "update") /\ req'[r].pc # "rollback"
            /\ req[r].body.id_sensor = NoId
            /\ Registrados(req[r].body.dev_eui) # {})
              => req'[r].lockId \in Registrados(req[r].body.dev_eui)
        /\ (req[r].kind = "put_eui" /\ req[r].pc = "select"
            /\ req'[r] # req[r] /\ req'[r].err = "none"
            /\ Registrados(req[r].body.dev_eui) # {})
              => /\ req'[r].pc = "update"
                 /\ req'[r].idSensor \in Registrados(req[r].body.dev_eui)
        /\ \A x \in Formas :
              (Free(r) /\ req'[r] # req[r] /\ Registrados(x) # {}
               /\ DownlinkRecv(r, x, <<"O", "N">>))
                  => req'[r].devEui \in {sensores[i].dev_eui : i \in Registrados(x)}
        /\ (DownlinkEn(r, "select") /\ req'[r].err = "none"
            /\ Registrados(req[r].devEui) # {})
              => req'[r].status # 404
        /\ \A x \in Formas :
              (Free(r) /\ req'[r] # req[r] /\ Registrados(x) # {}
               /\ GetMediciones(r, x, NULL) /\ req'[r].err = "none")
                  => LET ks == {k \in DOMAIN mediciones :
                                   mediciones[k].id_sensor \in Registrados(x)}
                     IN  IF ks = {} THEN req'[r].status = 404
                         ELSE /\ req'[r].status = 200
                              /\ req'[r].fila \in ks
      ]_vars

====
